---- MODULE Spec2Model ----
(***************************************************************************)
(* Model of the DFU interface-string parser of rust-dfu:                   *)
(*   util/parse.rs   usize_from_string, skip                               *)
(*   usb/stm32dfu.rs parse_memory_layout_string, parse_sector_layout       *)
(*   util/memory.rs  Accessibility, Sector, Bank, MemoryMap                *)
(*                                                                         *)
(* Text is a sequence of one-character strings.  A usize is a natural      *)
(* number kept as a little-endian sequence of base-256 limbs without       *)
(* leading zero limbs, so that the 64-bit width of usize is modelled       *)
(* exactly (overflow is decided on the mathematical value).                *)
(***************************************************************************)
EXTENDS Integers, Sequences, FiniteSets, TLC

(* call            the function that is called                             *)
(* arg             its argument(s)                                         *)
(* overflow_checks whether the build checks integer overflow (a debug      *)
(*                 build panics on it, a release build wraps)              *)
(* pc              "ready" before the call, "done" after it                *)
(* result          the outcome: a value, an error, or a panic              *)
VARIABLES call, arg, overflow_checks, pc, result

vars == <<call, arg, overflow_checks, pc, result>>

-----------------------------------------------------------------------------
(* Bounds of the explored inputs                                           *)

MaxLen == 3

MaxSectors == 3

MaxSegs == 4

-----------------------------------------------------------------------------
(* usize arithmetic                                                        *)

LimbBase == 256

UsizeBytes == 8

RECURSIVE Norm(_)
Norm(s) ==
    IF s = <<>> THEN <<>>
    ELSE IF s[Len(s)] = 0 THEN Norm(SubSeq(s, 1, Len(s) - 1))
    ELSE s

RECURSIVE U(_)
U(n) == IF n = 0 THEN <<>> ELSE <<n % LimbBase>> \o U(n \div LimbBase)

RECURSIVE AddCarry(_, _, _)
AddCarry(a, b, c) ==
    IF a = <<>> /\ b = <<>>
    THEN IF c = 0 THEN <<>> ELSE <<c>>
    ELSE LET x == IF a = <<>> THEN 0 ELSE Head(a)
             y == IF b = <<>> THEN 0 ELSE Head(b)
             ra == IF a = <<>> THEN <<>> ELSE Tail(a)
             rb == IF b = <<>> THEN <<>> ELSE Tail(b)
             t == x + y + c
         IN  <<t % LimbBase>> \o AddCarry(ra, rb, t \div LimbBase)

NatAdd(a, b) == Norm(AddCarry(a, b, 0))

RECURSIVE MulLimb(_, _, _)
MulLimb(a, m, c) ==
    IF a = <<>>
    THEN IF c = 0 THEN <<>> ELSE <<c>>
    ELSE LET t == Head(a) * m + c
         IN  <<t % LimbBase>> \o MulLimb(Tail(a), m, t \div LimbBase)

RECURSIVE NatMul(_, _)
NatMul(a, b) ==
    IF a = <<>> \/ b = <<>> THEN <<>>
    ELSE LET rest == NatMul(a, Tail(b))
             shifted == IF rest = <<>> THEN <<>> ELSE <<0>> \o rest
         IN  NatAdd(Norm(MulLimb(a, Head(b), 0)), shifted)

RECURSIVE NatLess(_, _)
NatLess(a, b) ==
    IF Len(a) # Len(b) THEN Len(a) < Len(b)
    ELSE IF a = <<>> THEN FALSE
    ELSE IF a[Len(a)] # b[Len(b)] THEN a[Len(a)] < b[Len(b)]
    ELSE NatLess(Norm(SubSeq(a, 1, Len(a) - 1)), Norm(SubSeq(b, 1, Len(b) - 1)))

Fits(n) == Len(n) <= UsizeBytes

Wrap(n) == IF Fits(n) THEN n ELSE Norm(SubSeq(n, 1, UsizeBytes))

-----------------------------------------------------------------------------
(* Outcomes of a call                                                      *)

Ok(v) == [kind |-> "Ok", val |-> v, err |-> "none"]

Err(e) == [kind |-> "Err", val |-> <<>>, err |-> e]

Panic == [kind |-> "Panic", val |-> <<>>, err |-> "panic"]

-----------------------------------------------------------------------------
(* Text helpers of the standard library, as used by the parsers            *)

starts_with(s, c) == Len(s) > 0 /\ s[1] = c

to_digit(c, radix) ==
    LET v == CASE c = "0" -> 0 [] c = "1" -> 1 [] c = "2" -> 2 [] c = "3" -> 3
               [] c = "4" -> 4 [] c = "5" -> 5 [] c = "6" -> 6 [] c = "7" -> 7
               [] c = "8" -> 8 [] c = "9" -> 9
               [] c \in {"a", "A"} -> 10 [] c \in {"b", "B"} -> 11
               [] c \in {"c", "C"} -> 12 [] c \in {"d", "D"} -> 13
               [] c \in {"e", "E"} -> 14 [] c \in {"f", "F"} -> 15
               [] OTHER -> 99
    IN  IF v < radix THEN v ELSE -1

RECURSIVE from_digits(_, _, _)
from_digits(digits, radix, acc) ==
    IF digits = <<>> THEN Ok(acc)
    ELSE LET d == to_digit(Head(digits), radix)
             next == NatAdd(Norm(MulLimb(acc, radix, 0)), U(IF d < 0 THEN 0 ELSE d))
         IN  IF d < 0 THEN Err("()")
             ELSE IF ~Fits(next) THEN Err("()")
             ELSE from_digits(Tail(digits), radix, next)

from_str_radix(src, radix) ==
    IF src = <<>> THEN Err("()")
    ELSE LET digits == IF Head(src) = "+" THEN Tail(src) ELSE src
         IN  IF digits = <<>> THEN Err("()")
             ELSE from_digits(digits, radix, <<>>)

-----------------------------------------------------------------------------
(* util/parse.rs                                                           *)

skip(instr) == IF Len(instr) < 2 THEN Err("()") ELSE Ok(Tail(instr))

usize_from_string_decimal_zero(instr) ==
    IF Len(instr) = 0 THEN Err("()")
    ELSE LET radix0 == 10
             s1 == IF starts_with(instr, "0") \/ starts_with(instr, "\\")
                   THEN skip(instr) ELSE Ok(instr)
         IN  IF s1.kind = "Err" THEN Err("()")
             ELSE LET prefix == IF starts_with(s1.val, "x") THEN 16
                                ELSE IF starts_with(s1.val, "o") THEN 8
                                ELSE IF starts_with(s1.val, "b") THEN 2
                                ELSE 0
                      radix == IF prefix # 0 THEN prefix ELSE radix0
                      s2 == IF prefix # 0 THEN skip(s1.val) ELSE Ok(s1.val)
                  IN  IF s2.kind = "Err" THEN Err("()")
                      ELSE from_str_radix(s2.val, radix)

usize_from_string_hex_default(instr) ==
    IF Len(instr) = 0 THEN Err("()")
    ELSE LET radix0 == IF starts_with(instr, "0") THEN 8 ELSE 16
             s1 == IF radix0 = 8 \/ starts_with(instr, "\\")
                   THEN skip(instr) ELSE Ok(instr)
         IN  IF s1.kind = "Err" THEN Err("()")
             ELSE LET prefix == IF starts_with(s1.val, "x") THEN 16
                                ELSE IF starts_with(s1.val, "o") THEN 8
                                ELSE IF starts_with(s1.val, "b") THEN 2
                                ELSE 0
                      radix == IF prefix # 0 THEN prefix ELSE radix0
                      s2 == IF prefix # 0 THEN skip(s1.val) ELSE Ok(s1.val)
                  IN  IF s2.kind = "Err" THEN Err("()")
                      ELSE from_str_radix(s2.val, radix)

usize_from_string(instr) ==
    IF Len(instr) = 0 THEN Err("()")
    ELSE LET radix0 == IF starts_with(instr, "0") THEN 8 ELSE 10
             s1 == IF radix0 = 8 \/ starts_with(instr, "\\")
                   THEN skip(instr) ELSE Ok(instr)
         IN  IF s1.kind = "Err" THEN Err("()")
             ELSE LET prefix == IF starts_with(s1.val, "x") THEN 16
                                ELSE IF starts_with(s1.val, "o") THEN 8
                                ELSE IF starts_with(s1.val, "b") THEN 2
                                ELSE 0
                      radix == IF prefix # 0 THEN prefix ELSE radix0
                      s2 == IF prefix # 0 THEN skip(s1.val) ELSE Ok(s1.val)
                  IN  IF s2.kind = "Err" THEN Err("()")
                      ELSE from_str_radix(s2.val, radix)

-----------------------------------------------------------------------------
(* More text helpers of the standard library                               *)

RECURSIVE split(_, _)
split(s, sep) ==
    IF \A i \in 1..Len(s) : s[i] # sep THEN <<s>>
    ELSE LET i == CHOOSE j \in 1..Len(s) :
                      s[j] = sep /\ \A k \in 1..(j - 1) : s[k] # sep
         IN  <<SubSeq(s, 1, i - 1)>> \o split(SubSeq(s, i + 1, Len(s)), sep)

is_whitespace(c) == c \in {" ", "\t", "\n", "\r"}

RECURSIVE trim_start(_)
trim_start(s) ==
    IF s # <<>> /\ is_whitespace(Head(s)) THEN trim_start(Tail(s)) ELSE s

RECURSIVE trim_end(_)
trim_end(s) ==
    IF s # <<>> /\ is_whitespace(s[Len(s)])
    THEN trim_end(SubSeq(s, 1, Len(s) - 1)) ELSE s

trim(s) == trim_end(trim_start(s))

parse_usize_multi_radix(s) == usize_from_string(s)

parse_usize(s) == from_str_radix(s, 10)

usize_add(a, b) ==
    LET sum == NatAdd(a, b)
    IN  IF Fits(sum) THEN Ok(sum)
        ELSE IF overflow_checks THEN Panic ELSE Ok(Wrap(sum))

usize_mul(a, b) ==
    LET prod == NatMul(a, b)
    IN  IF Fits(prod) THEN Ok(prod)
        ELSE IF overflow_checks THEN Panic ELSE Ok(Wrap(prod))

-----------------------------------------------------------------------------
(* util/memory.rs                                                          *)

NONE == 0
READ == 1
WRITE == 2
READ_WRITE == 3
ERASE == 4
READ_ERASE == 5
WRITE_ERASE == 6
READ_WRITE_ERASE == 7

Accessibility == 0..7

RECURSIVE BitAnd(_, _)
BitAnd(a, b) ==
    IF a = 0 \/ b = 0 THEN 0
    ELSE (a % 2) * (b % 2) + 2 * BitAnd(a \div 2, b \div 2)

Sector_new(index, address, block_count, block_size, access) ==
    [index |-> index, address |-> address, block_count |-> block_count,
     block_size |-> block_size, access |-> access]

is_accessible_any(self, access) == BitAnd(access, self.access) # 0

is_accessible(self, access) == BitAnd(access, self.access) = access

total_size_one_block(self) == Ok(self.block_size)

total_size(self) == usize_mul(self.block_count, self.block_size)

Bank_new(index, address, sectors) ==
    [index |-> index, address |-> address, sectors |-> sectors]

Bank_from_sectors(index, sectors) ==
    Bank_new(index, IF Len(sectors) > 0 THEN sectors[1].address ELSE <<>>, sectors)

MemoryMap_new(name, banks) == [name |-> name, banks |-> banks]

-----------------------------------------------------------------------------
(* usb/stm32dfu.rs                                                         *)

size_multiplier(c) ==
    CASE c = "M" -> Ok(U(1024 * 1024))
      [] c = "K" -> Ok(U(1024))
      [] c = " " -> Ok(U(0))
      [] OTHER -> Err("InvalidSectorDefinition")

access_of(c) ==
    CASE c = "a" -> Ok(READ)
      [] c = "b" -> Ok(ERASE)
      [] c = "c" -> Ok(READ_ERASE)
      [] c = "d" -> Ok(WRITE)
      [] c = "e" -> Ok(READ_WRITE)
      [] c = "f" -> Ok(WRITE_ERASE)
      [] c = "g" -> Ok(READ_WRITE_ERASE)
      [] OTHER -> Err("InvalidSectorDefinition")

(* layoutstr.len() - 2 on a token shorter than two characters panics with  *)
(* overflow checks and otherwise wraps to an index past the end of the     *)
(* token, on which the slice layoutstr[..dix] panics.                      *)
parse_sector_layout(sector_index, sector_address, layoutstr) ==
    IF Len(layoutstr) < 2 THEN Panic
    ELSE
    LET dix == Len(layoutstr) - 2
        layout_parts == split(SubSeq(layoutstr, 1, dix), "*")
        def_chars == SubSeq(layoutstr, dix + 1, Len(layoutstr))
    IN  IF Len(layout_parts) < 2 THEN Err("InvalidSectorDefinition")
        ELSE
        LET block_count == parse_usize(trim(layout_parts[1]))
            parsed_size == parse_usize(trim(layout_parts[2]))
            multiplier == size_multiplier(def_chars[1])
            access == access_of(def_chars[2])
        IN  IF block_count.kind = "Err" \/ parsed_size.kind = "Err"
            THEN Err("InvalidSectorDefinition")
            ELSE IF multiplier.kind = "Err" THEN multiplier
            ELSE
            LET block_size == usize_mul(parsed_size.val, multiplier.val)
            IN  IF block_size.kind = "Panic" THEN Panic
                ELSE IF access.kind = "Err" THEN access
                ELSE Ok(Sector_new(sector_index, sector_address,
                                   block_count.val, block_size.val, access.val))

RECURSIVE parse_sectors(_, _, _, _, _)
parse_sectors(tokens, k, sector_list, sector_address, sector_index) ==
    IF k > Len(tokens) THEN Ok(sector_list)
    ELSE
    LET sector == parse_sector_layout(sector_index, sector_address, tokens[k])
    IN  IF sector.kind # "Ok" THEN sector
        ELSE
        LET next_index == usize_add(sector_index, sector.val.block_count)
            size == total_size(sector.val)
        IN  IF next_index.kind = "Panic" \/ size.kind = "Panic" THEN Panic
            ELSE
            LET next_address == usize_add(sector_address, size.val)
            IN  IF next_address.kind = "Panic" THEN Panic
                ELSE parse_sectors(tokens, k + 1, Append(sector_list, sector.val),
                                   next_address.val, next_index.val)

RECURSIVE parse_banks_lenient(_, _, _, _)
parse_banks_lenient(ifstrparts, pos, bank_list, bank_index) ==
    IF pos > Len(ifstrparts) THEN Ok(bank_list)
    ELSE
    LET base_address_parsed == usize_from_string(ifstrparts[pos])
    IN  IF base_address_parsed.kind = "Err" THEN Err("AddressParseError")
        ELSE IF pos + 1 > Len(ifstrparts) THEN Ok(bank_list)
        ELSE
        LET sectors == parse_sectors(split(ifstrparts[pos + 1], ","), 1, <<>>,
                                     base_address_parsed.val, U(0))
        IN  IF sectors.kind # "Ok" THEN sectors
            ELSE parse_banks_lenient(ifstrparts, pos + 2,
                             Append(bank_list, Bank_from_sectors(bank_index, sectors.val)),
                             NatAdd(bank_index, U(1)))

RECURSIVE parse_banks(_, _, _, _)
parse_banks(ifstrparts, pos, bank_list, bank_index) ==
    IF pos > Len(ifstrparts) THEN Ok(bank_list)
    ELSE
    LET base_address_parsed == usize_from_string(ifstrparts[pos])
    IN  IF base_address_parsed.kind = "Err" THEN Err("AddressParseError")
        ELSE IF pos + 1 > Len(ifstrparts) THEN Err("InvalidBankPartCount")
        ELSE
        LET sectors == parse_sectors(split(ifstrparts[pos + 1], ","), 1, <<>>,
                                     base_address_parsed.val, U(0))
        IN  IF sectors.kind # "Ok" THEN sectors
            ELSE parse_banks(ifstrparts, pos + 2,
                             Append(bank_list, Bank_from_sectors(bank_index, sectors.val)),
                             NatAdd(bank_index, U(1)))

parse_memory_layout_string_late_check(ifstring) ==
    LET ifstrparts == split(ifstring, "/")
        namestr_part == ifstrparts[1]
        banks == parse_banks(ifstrparts, 2, <<>>, U(0))
    IN  IF banks.kind # "Ok" THEN banks
        ELSE IF ~starts_with(namestr_part, "@") THEN Err("InvalidStartChar")
        ELSE Ok(MemoryMap_new(trim(Tail(namestr_part)), banks.val))

parse_memory_layout_string(ifstring) ==
    LET ifstrparts == split(ifstring, "/")
        namestr_part == ifstrparts[1]
    IN  IF ~starts_with(namestr_part, "@") THEN Err("InvalidStartChar")
        ELSE LET banks == parse_banks(ifstrparts, 2, <<>>, U(0))
             IN  IF banks.kind # "Ok" THEN banks
                 ELSE Ok(MemoryMap_new(trim(Tail(namestr_part)), banks.val))

-----------------------------------------------------------------------------
(* Inputs                                                                  *)

RECURSIVE SeqsUpTo(_, _)
SeqsUpTo(S, n) ==
    IF n = 0 THEN {<<>>}
    ELSE LET shorter == SeqsUpTo(S, n - 1)
         IN  shorter \cup {Append(s, c) : s \in {t \in shorter : Len(t) = n - 1}, c \in S}

NumChars == {"0", "1", "2", "8", "9", "f", "x", "o", "b", "\\", "+"}

Digits20 == <<"1", "8", "4", "4", "6", "7", "4", "4", "0", "7",
              "3", "7", "0", "9", "5", "5", "1", "6", "1">>

LongTokens ==
    { Digits20 \o <<"5">>, Digits20 \o <<"6">>,
      <<"0", "x", "0", "8", "0", "0", "0", "0", "0", "0">>,
      <<"0", "x", "F", "F", "F", "F", "F", "F", "F", "F",
        "F", "F", "F", "F", "F", "F", "F", "F">>,
      <<"0", "x", "1", "0", "0", "0", "0", "0", "0", "0", "0",
        "0", "0", "0", "0", "0", "0", "0", "0">>,
      <<"0", "1", "2", "3">>, <<"0", "b", "1", "0", "1">>,
      <<"\\", "x", "1", "A">> }

NumTokens == SeqsUpTo(NumChars, MaxLen) \cup LongTokens

RECURSIVE Join(_, _)
Join(parts, sep) ==
    IF parts = <<>> THEN <<>>
    ELSE IF Len(parts) = 1 THEN parts[1]
    ELSE parts[1] \o <<sep>> \o Join(Tail(parts), sep)

(* Layout tokens <count>*<size><multiplier><access> for single calls of    *)
(* parse_sector_layout                                                     *)
CountFields ==
    { <<"0", "4">>, <<"0", "1">>, <<"0", "0">>, <<" ", "2", " ">>,
      <<"+", "3">>, <<"0", "x", "1">>, <<>>, Digits20 \o <<"5">> }

SizeFields ==
    { <<"0", "1", "6">>, <<"1", "2", "8">>, <<"0", "0", "0">>, <<"1", "6", " ">>,
      <<"1", "z">>, Digits20 \o <<"5">>, Digits20 \o <<"6">> }

MultChars == {"M", "K", " ", "B", "k", "0"}

AccessChars == {"a", "b", "c", "d", "e", "f", "g", "h", "z", "A", " ", "K"}

Token(count, size, mult, access) == count \o <<"*">> \o size \o <<mult, access>>

MalformedTokens ==
    { <<>>, <<"g">>, <<"z">>, <<"K", "g">>, <<"0", "4", "K", "g">>,
      <<"*", "K", "g">>, <<"1", "*", "2", "*", "3", "K", "g">>,
      <<"0", "4", "*", "0", "1", "6", "K">> }

LayoutTokens ==
    { Token(c, z, m, a) : c \in CountFields, z \in SizeFields,
                          m \in MultChars, a \in AccessChars }
      \cup MalformedTokens

SectorArgs ==
    { [index |-> p[1], address |-> p[2], layoutstr |-> t] :
        p \in { <<U(0), U(134217728)>>, <<U(4), U(134283264)>> },
        t \in LayoutTokens }

(* Descriptors with one bank and up to MaxSectors layout tokens           *)
NameFlash ==
    <<"@", "I", "n", "t", "e", "r", "n", "a", "l", " ",
      "F", "l", "a", "s", "h", " ", " ">>

Addr08000000 == <<"0", "x", "0", "8", "0", "0", "0", "0", "0", "0">>

ChainAddrs ==
    { Addr08000000,
      <<"0", "x", "1", "F", "F", "F", "7", "8", "0", "0">>,
      <<"1", "6">>,
      <<"0", "x", "F", "F", "F", "F", "F", "F", "F", "F",
        "F", "F", "F", "F", "0", "0", "0", "0">> }

Tok04x016Kg == <<"0", "4", "*", "0", "1", "6", "K", "g">>
Tok01x064Kg == <<"0", "1", "*", "0", "6", "4", "K", "g">>
Tok03x128Kg == <<"0", "3", "*", "1", "2", "8", "K", "g">>
Tok01x512e == <<"0", "1", "*", "5", "1", "2", " ", "e">>
Tok00x016Ka == <<"0", "0", "*", "0", "1", "6", "K", "a">>
Tok04x016Kz == <<"0", "4", "*", "0", "1", "6", "K", "z">>

ChainTokens ==
    { Tok04x016Kg, Tok01x064Kg, Tok03x128Kg, Tok01x512e, Tok00x016Ka,
      Tok04x016Kz, <<>> }

ChainLayouts ==
    { Join(ts, ",") : ts \in SeqsUpTo(ChainTokens, MaxSectors) \ {<<>>} }

ChainDescriptors ==
    { Join(<<NameFlash, a, l>>, "/") : a \in ChainAddrs, l \in ChainLayouts }

(* Descriptors made of a name segment and up to MaxSegs further segments   *)
NameSegs == { NameFlash, <<"@">>, <<"X">>, <<>>, <<" ", "@", "X">> }

SegPool ==
    { Addr08000000, <<"z", "z">>, Tok04x016Kg,
      Join(<<Tok01x512e, Tok01x512e>>, ","), <<>> }

SegDescriptors ==
    { Join(<<n>> \o segs, "/") : n \in NameSegs, segs \in SeqsUpTo(SegPool, MaxSegs) }

Descriptors == ChainDescriptors \cup SegDescriptors

(* Sectors and required capabilities for is_accessible                     *)
AccessArgs ==
    { [self |-> Sector_new(U(0), U(134217728), U(4), U(16384), a), access |-> r] :
        a \in Accessibility, r \in Accessibility }

-----------------------------------------------------------------------------
(* The calls                                                               *)

Init ==
    /\ overflow_checks \in BOOLEAN
    /\ pc = "ready"
    /\ result = Err("pending")
    /\ \/ call = "usize_from_string" /\ arg \in NumTokens
       \/ call = "parse_sector_layout" /\ arg \in SectorArgs
       \/ call = "parse_memory_layout_string" /\ arg \in Descriptors
       \/ call = "is_accessible" /\ arg \in AccessArgs

CallUsizeFromString ==
    /\ pc = "ready"
    /\ call = "usize_from_string"
    /\ result' = usize_from_string(arg)
    /\ pc' = "done"
    /\ UNCHANGED <<call, arg, overflow_checks>>

CallParseSectorLayout ==
    /\ pc = "ready"
    /\ call = "parse_sector_layout"
    /\ result' = parse_sector_layout(arg.index, arg.address, arg.layoutstr)
    /\ pc' = "done"
    /\ UNCHANGED <<call, arg, overflow_checks>>

CallParseMemoryLayoutString ==
    /\ pc = "ready"
    /\ call = "parse_memory_layout_string"
    /\ result' = parse_memory_layout_string(arg)
    /\ pc' = "done"
    /\ UNCHANGED <<call, arg, overflow_checks>>

CallIsAccessible ==
    /\ pc = "ready"
    /\ call = "is_accessible"
    /\ result' = Ok(is_accessible(arg.self, arg.access))
    /\ pc' = "done"
    /\ UNCHANGED <<call, arg, overflow_checks>>

Next ==
    \/ CallUsizeFromString
    \/ CallParseSectorLayout
    \/ CallParseMemoryLayoutString
    \/ CallIsAccessible

Spec == Init /\ [][Next]_vars

-----------------------------------------------------------------------------
(* Vocabulary of the properties: mathematical values of digit strings      *)

Done(f) == pc = "done" /\ call = f

DigitChars ==
    <<"0", "1", "2", "3", "4", "5", "6", "7", "8", "9", "a", "b", "c", "d", "e", "f">>

UpperDigitChars ==
    <<"0", "1", "2", "3", "4", "5", "6", "7", "8", "9", "A", "B", "C", "D", "E", "F">>

IsDigit(c, radix) ==
    \E i \in 1..radix : DigitChars[i] = c \/ UpperDigitChars[i] = c

DigitOf(c) ==
    (CHOOSE i \in 1..16 : DigitChars[i] = c \/ UpperDigitChars[i] = c) - 1

(* Positional value: value(front . d) = value(front) * radix + d           *)
RECURSIVE RadixValue(_, _)
RadixValue(digits, radix) ==
    IF digits = <<>> THEN <<>>
    ELSE NatAdd(NatMul(RadixValue(SubSeq(digits, 1, Len(digits) - 1), radix), U(radix)),
                U(DigitOf(digits[Len(digits)])))

IsDigitRun(s, radix) == s # <<>> /\ \A i \in 1..Len(s) : IsDigit(s[i], radix)

(* What parsing a text as an unsigned integer in a radix yields: an        *)
(* optional '+', then at least one digit of the radix, the value fitting   *)
(* in a usize                                                              *)
UnsignedIn(s, radix) ==
    LET body == IF s # <<>> /\ s[1] = "+" THEN Tail(s) ELSE s
    IN  IF IsDigitRun(body, radix) /\ Fits(RadixValue(body, radix))
        THEN Ok(RadixValue(body, radix))
        ELSE Err("()")

-----------------------------------------------------------------------------
(* C3: usize_from_string returns what the six-step prefix procedure        *)
(* prescribes: an empty token fails; a leading '0' selects radix 8; a      *)
(* leading '0' or backslash drops one character (failing on a token of     *)
(* fewer than 2 characters); then at most one of 'x' (16), 'o' (8),        *)
(* 'b' (2) is consumed; the rest is parsed in the resulting radix.  So     *)
(* "0x08000000" is 0x08000000, "0123" is 83, "0b101" is 5, "0" fails.      *)

PrefixProcedure(token) ==
    IF token = <<>> THEN Err("()")
    ELSE
    LET drops == token[1] \in {"0", "\\"}
        radix3 == IF token[1] = "0" THEN 8 ELSE 10
        remaining4 == IF drops THEN Tail(token) ELSE token
        letter == IF remaining4 = <<>> THEN "" ELSE remaining4[1]
        radix5 == CASE letter = "x" -> 16 [] letter = "o" -> 8
                    [] letter = "b" -> 2 [] OTHER -> radix3
        remaining5 == IF letter \in {"x", "o", "b"} THEN Tail(remaining4)
                      ELSE remaining4
    IN  IF drops /\ Len(token) < 2 THEN Err("()")
        ELSE UnsignedIn(remaining5, radix5)

C3_PrefixProcedure ==
    Done("usize_from_string") =>
        /\ result = PrefixProcedure(arg)
        /\ arg = Addr08000000 => result = Ok(U(134217728))
        /\ arg = <<"0", "1", "2", "3">> => result = Ok(U(83))
        /\ arg = <<"0", "b", "1", "0", "1">> => result = Ok(U(5))
        /\ arg = <<"0">> => result = Err("()")

C3_Witness ==
    /\ Done("usize_from_string")
    /\ arg = <<"0", "1", "2", "3">>
    /\ result = Ok(U(83))

-----------------------------------------------------------------------------
(* C4, as stated: for every non-empty run of the digits 0-9 whose value    *)
(* fits in a usize, usize_from_string succeeds with the radix-10 value.    *)

C4_AllDecimalStrings ==
    (Done("usize_from_string") /\ IsDigitRun(arg, 10) /\ Fits(RadixValue(arg, 10)))
        => result = Ok(RadixValue(arg, 10))

(* C4, amended: for every non-empty run of the digits 0-9 that does not    *)
(* begin with '0' and whose value fits in a usize, usize_from_string       *)
(* succeeds with the radix-10 value.                                       *)

C4_DecimalWithoutLeadingZero ==
    (Done("usize_from_string") /\ IsDigitRun(arg, 10) /\ arg[1] # "0"
        /\ Fits(RadixValue(arg, 10)))
        => result = Ok(RadixValue(arg, 10))

C4_Witness ==
    /\ Done("usize_from_string")
    /\ arg = Digits20 \o <<"5">>
    /\ result = Ok(<<255, 255, 255, 255, 255, 255, 255, 255>>)

-----------------------------------------------------------------------------
(* Vocabulary of the properties: the parts of a descriptor and usize sums  *)

WrapAdd(x, y) == Wrap(NatAdd(x, y))

WrapMul(x, y) == Wrap(NatMul(x, y))

Segments(descriptor) == split(descriptor, "/")

AddressSegment(descriptor, bank) == Segments(descriptor)[2 * bank]

LayoutSegment(descriptor, bank) == Segments(descriptor)[2 * bank + 1]

Returned == Done("parse_memory_layout_string") /\ result.kind = "Ok"

-----------------------------------------------------------------------------
(* C2: chaining.  In every bank of a returned MemoryMap the first sector   *)
(* has index 0 and the address parsed from the bank's address segment,     *)
(* and every later sector's address is the previous sector's address       *)
(* plus its total_size (block_count * block_size) and its index is the     *)
(* previous index plus the previous block_count, in usize arithmetic.      *)

C2_Chaining ==
    Returned =>
        \A b \in 1..Len(result.val.banks) :
            LET sectors == result.val.banks[b].sectors
            IN  /\ sectors # <<>>
                /\ sectors[1].index = U(0)
                /\ sectors[1].address = PrefixProcedure(AddressSegment(arg, b)).val
                /\ \A k \in 2..Len(sectors) :
                     /\ sectors[k].address =
                          WrapAdd(sectors[k - 1].address,
                                  WrapMul(sectors[k - 1].block_count,
                                          sectors[k - 1].block_size))
                     /\ sectors[k].index =
                          WrapAdd(sectors[k - 1].index, sectors[k - 1].block_count)

C2_Witness ==
    /\ Returned
    /\ Len(result.val.banks) = 1
    /\ Len(result.val.banks[1].sectors) = 3
    /\ result.val.banks[1].sectors[2].index = U(4)
    /\ result.val.banks[1].sectors[3].address = U(134348800)

-----------------------------------------------------------------------------
(* C7: in every bank of a returned MemoryMap consecutive sectors have      *)
(* strictly increasing addresses and the byte range of a sector ends at    *)
(* or before the address of the next one.                                  *)

C7_StrictlyIncreasing ==
    Returned =>
        \A b \in 1..Len(result.val.banks) :
            LET sectors == result.val.banks[b].sectors
            IN  \A k \in 2..Len(sectors) :
                    /\ NatLess(sectors[k - 1].address, sectors[k].address)
                    /\ ~NatLess(sectors[k].address,
                                NatAdd(sectors[k - 1].address,
                                       NatMul(sectors[k - 1].block_count,
                                              sectors[k - 1].block_size)))

-----------------------------------------------------------------------------
(* C8: is_accessible(required) is true exactly when every capability of    *)
(* 'required' is a capability of the sector; a READ_WRITE_ERASE sector     *)
(* answers true to every query and a READ sector false to every query      *)
(* that contains Writable.                                                 *)

Capabilities(bits) ==
    {cap \in {"Readable", "Writable", "Erasable"} :
        \/ cap = "Readable" /\ bits % 2 = 1
        \/ cap = "Writable" /\ (bits \div 2) % 2 = 1
        \/ cap = "Erasable" /\ (bits \div 4) % 2 = 1}

C8_IsAccessible ==
    Done("is_accessible") =>
        /\ result.val = (Capabilities(arg.access) \subseteq Capabilities(arg.self.access))
        /\ arg.self.access = READ_WRITE_ERASE => result.val = TRUE
        /\ (arg.self.access = READ /\ "Writable" \in Capabilities(arg.access))
              => result.val = FALSE

C8_Witness ==
    /\ Done("is_accessible")
    /\ arg.self.access = READ
    /\ arg.access = READ_WRITE
    /\ result.val = FALSE

-----------------------------------------------------------------------------
(* Vocabulary of the properties: the fields of a layout token              *)

AccessLetters == {"a", "b", "c", "d", "e", "f", "g"}

MultiplierLetters == {"M", "K", " "}

CountField(token) == trim(split(SubSeq(token, 1, Len(token) - 2), "*")[1])

SizeField(token) == trim(split(SubSeq(token, 1, Len(token) - 2), "*")[2])

MultiplierChar(token) == token[Len(token) - 1]

AccessChar(token) == token[Len(token)]

StatedMultiplier(c) ==
    CASE c = "M" -> U(1024 * 1024) [] c = "K" -> U(1024) [] c = " " -> U(1)

StatedCapabilities(c) ==
    CASE c = "a" -> {"Readable"}
      [] c = "b" -> {"Erasable"}
      [] c = "c" -> {"Readable", "Erasable"}
      [] c = "d" -> {"Writable"}
      [] c = "e" -> {"Readable", "Writable"}
      [] c = "f" -> {"Writable", "Erasable"}
      [] c = "g" -> {"Readable", "Writable", "Erasable"}

(* <count>*<size><multiplier><access> with decimal digit runs              *)
WellFormedToken(token) ==
    /\ Len(token) >= 5
    /\ Len(split(SubSeq(token, 1, Len(token) - 2), "*")) = 2
    /\ IsDigitRun(split(SubSeq(token, 1, Len(token) - 2), "*")[1], 10)
    /\ IsDigitRun(split(SubSeq(token, 1, Len(token) - 2), "*")[2], 10)
    /\ MultiplierChar(token) \in MultiplierLetters
    /\ AccessChar(token) \in AccessLetters

StatedBlockCount(token) == RadixValue(CountField(token), 10)

StatedBlockSize(token) ==
    NatMul(RadixValue(SizeField(token), 10), StatedMultiplier(MultiplierChar(token)))

RECURSIVE StatedBytes(_)
StatedBytes(tokens) ==
    IF tokens = <<>> THEN <<>>
    ELSE NatAdd(NatMul(StatedBlockCount(Head(tokens)), StatedBlockSize(Head(tokens))),
                StatedBytes(Tail(tokens)))

(* '@Name/addr/token,token,...' describing memory inside the address space *)
WellFormedSingleBank(descriptor) ==
    /\ Len(Segments(descriptor)) = 3
    /\ starts_with(descriptor, "@")
    /\ PrefixProcedure(AddressSegment(descriptor, 1)).kind = "Ok"
    /\ \A t \in 1..Len(split(LayoutSegment(descriptor, 1), ",")) :
          WellFormedToken(split(LayoutSegment(descriptor, 1), ",")[t])
    /\ Fits(NatAdd(PrefixProcedure(AddressSegment(descriptor, 1)).val,
                   StatedBytes(split(LayoutSegment(descriptor, 1), ","))))

InternalFlashDescriptor ==
    Join(<<NameFlash, Addr08000000,
           Join(<<Tok04x016Kg, Tok01x064Kg, Tok03x128Kg>>, ",")>>, "/")

-----------------------------------------------------------------------------
(* C1: a well-formed single-bank descriptor parses to a MemoryMap named    *)
(* by the first segment without '@' and surrounding whitespace, with one   *)
(* bank (index 0, address = value of addr) holding one sector per layout   *)
(* token in order, block_count = decimal count and block_size = decimal    *)
(* size times the multiplier; the Internal Flash descriptor gives the      *)
(* sectors (0, 0x08000000, 0x10000), (4, 0x08010000, 0x10000),             *)
(* (5, 0x08020000, 0x60000).                                               *)

C1_WellFormedDescriptor ==
    (Done("parse_memory_layout_string") /\ WellFormedSingleBank(arg)) =>
        /\ result.kind = "Ok"
        /\ result.val.name = trim(Tail(Segments(arg)[1]))
        /\ Len(result.val.banks) = 1
        /\ result.val.banks[1].index = U(0)
        /\ result.val.banks[1].address = PrefixProcedure(AddressSegment(arg, 1)).val
        /\ LET tokens == split(LayoutSegment(arg, 1), ",")
               sectors == result.val.banks[1].sectors
           IN  /\ Len(sectors) = Len(tokens)
               /\ \A k \in 1..Len(tokens) :
                    /\ sectors[k].block_count = StatedBlockCount(tokens[k])
                    /\ sectors[k].block_size = StatedBlockSize(tokens[k])
        /\ arg = InternalFlashDescriptor =>
             /\ result.val.name =
                  <<"I", "n", "t", "e", "r", "n", "a", "l", " ", "F", "l", "a", "s", "h">>
             /\ result.val.banks[1].address = U(134217728)
             /\ LET sectors == result.val.banks[1].sectors
                    triple(k) == <<sectors[k].index, sectors[k].address,
                                   NatMul(sectors[k].block_count, sectors[k].block_size)>>
                IN  /\ Len(sectors) = 3
                    /\ triple(1) = <<U(0), U(134217728), U(65536)>>
                    /\ triple(2) = <<U(4), U(134283264), U(65536)>>
                    /\ triple(3) = <<U(5), U(134348800), U(393216)>>

-----------------------------------------------------------------------------
(* C5: parse_memory_layout_string returns a MemoryMap or one of the four   *)
(* error kinds and never panics; a layout token shorter than two           *)
(* characters is reported as InvalidSectorDefinition.                      *)

ErrorKinds ==
    {"InvalidStartChar", "InvalidBankPartCount", "AddressParseError",
     "InvalidSectorDefinition"}

FirstTokenTooShort(descriptor) ==
    /\ starts_with(descriptor, "@")
    /\ Len(Segments(descriptor)) >= 3
    /\ PrefixProcedure(AddressSegment(descriptor, 1)).kind = "Ok"
    /\ Len(split(LayoutSegment(descriptor, 1), ",")[1]) < 2

C5_ReturnsOutcome ==
    Done("parse_memory_layout_string") =>
        /\ result.kind \in {"Ok", "Err"}
        /\ result.kind = "Err" => result.err \in ErrorKinds
        /\ FirstTokenTooShort(arg) => result = Err("InvalidSectorDefinition")

-----------------------------------------------------------------------------
(* C6: an accepted layout token has block_size = size field times          *)
(* 1024*1024 for 'M', 1024 for 'K' and 1 for a space; any other            *)
(* multiplier character fails with InvalidSectorDefinition.                *)

C6_SizeMultiplier ==
    (Done("parse_sector_layout") /\ Len(arg.layoutstr) >= 2) =>
        /\ result.kind = "Ok" =>
             /\ MultiplierChar(arg.layoutstr) \in MultiplierLetters
             /\ result.val.block_size =
                  WrapMul(UnsignedIn(SizeField(arg.layoutstr), 10).val,
                          StatedMultiplier(MultiplierChar(arg.layoutstr)))
        /\ MultiplierChar(arg.layoutstr) \notin MultiplierLetters
             => result = Err("InvalidSectorDefinition")

-----------------------------------------------------------------------------
(* C9, as stated: a descriptor that starts with '@' and has an even        *)
(* number of '/'-separated segments fails with InvalidBankPartCount.       *)

EvenSegments(descriptor) ==
    starts_with(descriptor, "@") /\ Len(Segments(descriptor)) % 2 = 0

C9_EvenSegmentCount ==
    (Done("parse_memory_layout_string") /\ EvenSegments(arg))
        => result = Err("InvalidBankPartCount")

(* C9, amended: such a descriptor fails with InvalidBankPartCount when     *)
(* the descriptor without its last segment parses successfully and the     *)
(* last segment, the address without a layout, is a valid numeric          *)
(* literal.                                                                *)

WithoutLastSegment(descriptor) ==
    Join(SubSeq(Segments(descriptor), 1, Len(Segments(descriptor)) - 1), "/")

LastSegment(descriptor) == Segments(descriptor)[Len(Segments(descriptor))]

C9_DanglingAddress ==
    (/\ Done("parse_memory_layout_string")
     /\ EvenSegments(arg)
     /\ parse_memory_layout_string(WithoutLastSegment(arg)).kind = "Ok"
     /\ PrefixProcedure(LastSegment(arg)).kind = "Ok")
        => result = Err("InvalidBankPartCount")

C9_Witness ==
    /\ Done("parse_memory_layout_string")
    /\ arg = Join(<<NameFlash, Addr08000000, Tok04x016Kg, Addr08000000>>, "/")
    /\ result = Err("InvalidBankPartCount")

-----------------------------------------------------------------------------
(* C10: an accepted layout token carries the capabilities named by its     *)
(* last character (a=R, b=E, c=R+E, d=W, e=R+W, f=W+E, g=R+W+E), never     *)
(* the empty set; a token whose last character is anything else fails      *)
(* with InvalidSectorDefinition.                                           *)

C10_AccessCharacter ==
    Done("parse_sector_layout") =>
        /\ result.kind = "Ok" =>
             /\ AccessChar(arg.layoutstr) \in AccessLetters
             /\ Capabilities(result.val.access) =
                  StatedCapabilities(AccessChar(arg.layoutstr))
             /\ result.val.access # NONE
        /\ (arg.layoutstr # <<>> /\ AccessChar(arg.layoutstr) \notin AccessLetters)
             => result = Err("InvalidSectorDefinition")

-----------------------------------------------------------------------------
(* C11: a descriptor whose first '/'-separated segment does not begin      *)
(* with '@' (the empty string and leading whitespace included) fails       *)
(* with InvalidStartChar, whatever the later segments are.                 *)

C11_InvalidStartChar ==
    (Done("parse_memory_layout_string") /\ ~starts_with(Segments(arg)[1], "@"))
        => result = Err("InvalidStartChar")

C11_Witness ==
    /\ Done("parse_memory_layout_string")
    /\ arg = Join(<<<<" ", "@", "X">>, <<"z", "z">>, <<>>, Addr08000000>>, "/")
    /\ result = Err("InvalidStartChar")

-----------------------------------------------------------------------------
(* C12: every sector of a returned MemoryMap has block_count > 0; a        *)
(* layout token whose count field is zero is rejected instead of           *)
(* producing a sector.                                                     *)

C12_PositiveBlockCount ==
    Returned =>
        \A b \in 1..Len(result.val.banks) :
            \A k \in 1..Len(result.val.banks[b].sectors) :
                NatLess(U(0), result.val.banks[b].sectors[k].block_count)

-----------------------------------------------------------------------------
(* Vocabulary of the properties: the count and size fields of a token      *)

HasFields(token) ==
    Len(token) >= 2 /\ Len(split(SubSeq(token, 1, Len(token) - 2), "*")) >= 2

(* The product of the size and the multiplier the parser applies is        *)
(* computed without a panic                                                *)
SizeComputable(size, token) ==
    ~overflow_checks \/ Fits(NatMul(size, size_multiplier(MultiplierChar(token)).val))

-----------------------------------------------------------------------------
(* C13, as stated: parse_sector_layout accepts the count and size fields   *)
(* of a layout token exactly when usize_from_string accepts them, and      *)
(* block_count and the block size before the multiplier are                *)
(* usize_from_string's results on the trimmed fields.                      *)

C13_FieldsByNumericLiteralParser ==
    (Done("parse_sector_layout") /\ HasFields(arg.layoutstr)) =>
        LET count == usize_from_string(CountField(arg.layoutstr))
            size == usize_from_string(SizeField(arg.layoutstr))
        IN  /\ result.kind = "Ok" =>
                 /\ count.kind = "Ok" /\ size.kind = "Ok"
                 /\ result.val.block_count = count.val
                 /\ result.val.block_size =
                      WrapMul(size.val, size_multiplier(MultiplierChar(arg.layoutstr)).val)
            /\ (count.kind = "Err" \/ size.kind = "Err")
                 => result = Err("InvalidSectorDefinition")
            /\ (/\ count.kind = "Ok" /\ size.kind = "Ok"
                /\ MultiplierChar(arg.layoutstr) \in MultiplierLetters
                /\ AccessChar(arg.layoutstr) \in AccessLetters
                /\ SizeComputable(size.val, arg.layoutstr))
                 => result.kind = "Ok"

(* C13, amended: the count and size fields are each interpreted as a       *)
(* decimal number (str::parse::<usize>: an optional '+', decimal digits,   *)
(* a value that fits in a usize).  parse_sector_layout accepts the fields  *)
(* exactly when both are such numbers, block_count is the decimal value    *)
(* of the trimmed count field and block_size is the decimal value of the   *)
(* trimmed size field times the multiplier the parser applies.             *)

C13_FieldsAreDecimal ==
    (Done("parse_sector_layout") /\ HasFields(arg.layoutstr)) =>
        LET count == UnsignedIn(CountField(arg.layoutstr), 10)
            size == UnsignedIn(SizeField(arg.layoutstr), 10)
        IN  /\ result.kind = "Ok" =>
                 /\ count.kind = "Ok" /\ size.kind = "Ok"
                 /\ result.val.block_count = count.val
                 /\ result.val.block_size =
                      WrapMul(size.val, size_multiplier(MultiplierChar(arg.layoutstr)).val)
            /\ (count.kind = "Err" \/ size.kind = "Err")
                 => result = Err("InvalidSectorDefinition")
            /\ (/\ count.kind = "Ok" /\ size.kind = "Ok"
                /\ MultiplierChar(arg.layoutstr) \in MultiplierLetters
                /\ AccessChar(arg.layoutstr) \in AccessLetters
                /\ SizeComputable(size.val, arg.layoutstr))
                 => result.kind = "Ok"

C13_Witness ==
    /\ Done("parse_sector_layout")
    /\ arg.layoutstr = Tok04x016Kg
    /\ result.kind = "Ok"
    /\ result.val.block_count = U(4)
    /\ result.val.block_size = U(16384)

====
